---- MODULE Spec2Model ----
(***************************************************************************)
(* The combo engine of kmk/modules/combos.py: Combo, Chord, Sequence and   *)
(* the Combos module.  One engine instance, driven by process_key (press   *)
(* and release of physical keys) and by the timer callback on_timeout.     *)
(* A handler of the source runs to completion, nested calls included, so   *)
(* each handler is one operator on the engine record, and one action.      *)
(***************************************************************************)
EXTENDS Integers, Sequences, FiniteSets, TLC

\* ------------------------------------------------------------------ bounds
\* Number of raw key events delivered in a free run.
MaxEvents == 4

\* ------------------------------------------------------- program constants
\* _ComboState
RESET == 0
MATCHING == 1
ACTIVE == 2
IDLE == 3

\* start_timepoint = None (clock readings are >= 0)
None == -1
\* self._timeout = None: no handle (handles are truthy)
NoTimeout == 0
\* Combo.timeout / Sequence.timeout class defaults
ChordTimeout == 50
SequenceTimeout == 1000
\* the divisor of d_last / d_start
Divisor == 1000
\* resume_process_key(self, combo.result, is_pressed): int_coord defaults to None
NoCoord == -1
\* id of an emission that is not a raw event (a combo result)
NoId == 0

Keys == {"A", "B", "C", "D"}

\* the matrix position of a physical key
CoordOf(key) == CASE key = "A" -> 0 [] key = "B" -> 1 [] key = "C" -> 2 [] key = "D" -> 3 [] OTHER -> NoCoord

\* most key events of a run in which the host also calls the helpers that
\* have no caller in the source, and most Combo.insert calls of such a run
HostEvents == 2
MaxInserts == 1

\* clock gaps (ms) between two entries of a free run: inside the chord
\* timeout, between the two timeouts, and past Divisor * ChordTimeout
Gaps == {10, 80, 60000}

Max(a, b) == IF a >= b THEN a ELSE b

Range(seq) == {seq[i] : i \in 1..Len(seq)}

\* list.remove(x): drops the first occurrence
RECURSIVE RemoveFirst(_, _)
RemoveFirst(seq, x) ==
    IF seq = <<>> THEN <<>>
    ELSE IF Head(seq) = x THEN Tail(seq)
    ELSE <<Head(seq)>> \o RemoveFirst(Tail(seq), x)

\* --------------------------------------------------------- Combo, registry
\* the value of combo.pressed while the attribute does not exist: __init__
\* ignores its pressed argument and only reset() assigns self.pressed, so a
\* read before the first reset() raises AttributeError
NoAttribute == <<"AttributeError">>

\* Combo.__init__: the definition and the mutable fields of one combo.
\* _remaining is the class-level [] (shared by every combo that was never
\* reset), state is RESET and pressed does not exist until reset() runs.
Combo(kind, match, result, fast_reset, per_key_timeout, timeout) ==
    [kind |-> kind, match |-> match, result |-> result,
     fast_reset |-> fast_reset, per_key_timeout |-> per_key_timeout,
     timeout |-> timeout,
     state |-> RESET, remaining |-> <<>>, pressed |-> NoAttribute]

Chord(match, result) == Combo("Chord", match, result, FALSE, FALSE, ChordTimeout)

Sequence(match, result) == Combo("Sequence", match, result, TRUE, TRUE, SequenceTimeout)

\* the registry of the end-to-end scenarios
StdRegistry == <<Chord(<<"A", "B">>, "X"), Sequence(<<"A", "B", "C">>, "Y")>>

\* a single three-key chord
Chord3Registry == <<Chord(<<"A", "B", "C">>, "X")>>

\* two chords over the same keys, with distinct results
TwinRegistry == <<Chord(<<"A", "B">>, "X"), Chord(<<"B", "A">>, "Y")>>

\* the two chords over the same keys beside a longer sequence
TwinSequenceRegistry ==
    <<Chord(<<"A", "B">>, "X"), Chord(<<"B", "A">>, "Y"),
      Sequence(<<"A", "B", "C">>, "Z")>>

\* a chord over the last two keys of a sequence
OverlapRegistry == <<Chord(<<"B", "C">>, "X"), Sequence(<<"A", "B", "C">>, "Y")>>

\* a short sequence and a chord that shares its first key
SequenceChordRegistry == <<Sequence(<<"A", "B">>, "Y"), Chord(<<"C", "A">>, "X")>>

\* a chord over two inner keys of a four-step sequence that returns to
\* its first key
ReturnSequenceRegistry ==
    <<Chord(<<"B", "C">>, "X"), Sequence(<<"A", "B", "C", "A">>, "W")>>

\* the four-step sequence beside a sequence over two of its keys in
\* reverse order and a chord with a key of its own
ReversedPairRegistry ==
    <<Sequence(<<"A", "B", "C", "A">>, "W"), Sequence(<<"C", "B">>, "V"),
      Chord(<<"D", "B">>, "U")>>

Registries ==
    {StdRegistry, Chord3Registry, TwinRegistry, TwinSequenceRegistry, OverlapRegistry,
     SequenceChordRegistry, ReturnSequenceRegistry, ReversedPairRegistry}

\* the clock readings of the end-to-end scenarios (chord timeout, clean
\* chord, sequence completion); <<>> is a free run with gaps from Gaps
ChordTimeoutTimes == <<0, 80>>
CleanChordTimes == <<0, 10, 30, 40>>
SequenceTimes == <<0, 20, 100, 120, 200, 220>>
Scenarios == {ChordTimeoutTimes, CleanChordTimes, SequenceTimes}


\* ------------------------------------------------------------- the engine
\* The engine record s holds the fields of the Combos instance (combos,
\* key_buffer, pending_combos, match_count, start_timepoint, timeout), the
\* host keyboard it calls into (timers, next_handle, out, now) and the
\* bookkeeping of the current entry: at (ordinal of the top-level call),
\* err (an exception is propagating), max_armed (most timers ever armed at
\* once) and consumed (ids of buffered events dropped by a commit of a combo
\* that contains their key).

\* an entry of key_buffer: (int_coord, key, is_pressed, timepoint), tagged
\* with the id of the raw event it came from
BufferEvent(int_coord, key, is_pressed, timepoint, id) ==
    [coord |-> int_coord, key |-> key, is_pressed |-> is_pressed,
     t |-> timepoint, id |-> id]

\* keyboard.resume_process_key(self, key, is_pressed, int_coord): the host
\* takes the event downstream; out is the downstream log
resume_process_key(s, key, is_pressed, int_coord, id) ==
    [s EXCEPT !.out = Append(@, [key |-> key, is_pressed |-> is_pressed,
                                 coord |-> int_coord, id |-> id, at |-> s.at])]

\* keyboard.set_timeout(after_ticks, callback): arms a one-shot timer and
\* returns its handle, which the engine stores in self._timeout
set_timeout(s, after_ticks) ==
    LET armed == s.timers \cup {[handle |-> s.next_handle, due |-> s.now + after_ticks]}
    IN [s EXCEPT !.timers = armed,
                 !.timeout = s.next_handle,
                 !.next_handle = @ + 1,
                 !.max_armed = Max(@, Cardinality(armed))]

\* keyboard.cancel_timeout(handle): a fired or cancelled handle is ignored
cancel_timeout(s, handle) ==
    [s EXCEPT !.timers = {tm \in @ : tm.handle # handle}]

\* a plausible slip: the guard is there, the cancel is not
cancel_pending_timeout_Skip(s) == s

\* if self._timeout: keyboard.cancel_timeout(self._timeout)
cancel_pending_timeout(s) ==
    IF s.timeout # NoTimeout THEN cancel_timeout(s, s.timeout) ELSE s

\* a plausible slip: leaving MATCHING is not counted
state_set_NoDecrement(s, i, new_state) ==
    IF s.combos[i].state = new_state THEN s
    ELSE [s EXCEPT !.match_count = @ + (IF new_state = MATCHING THEN 1 ELSE 0),
                   !.combos[i].state = new_state]

\* Combo.state setter: keeps Combos.match_count
state_set(s, i, new_state) ==
    IF s.combos[i].state = new_state THEN s
    ELSE [s EXCEPT !.match_count = @ + (IF new_state = MATCHING THEN 1 ELSE 0)
                                     - (IF s.combos[i].state = MATCHING THEN 1 ELSE 0),
                   !.combos[i].state = new_state]

\* Combo.has_match with _match_coord = False
has_match(combo, key, int_coord) == key \in Range(combo.match)

\* Sequence.uses_match raises AttributeError: has_match holds, so the
\* `and` goes on to read self.pressed, which does not exist yet
uses_match_raises(combo, key, int_coord) ==
    /\ combo.kind = "Sequence"
    /\ has_match(combo, key, int_coord)
    /\ combo.pressed = NoAttribute

\* Combo.uses_match / Sequence.uses_match with _match_coord = False, when
\* it returns
uses_match(combo, key, int_coord) ==
    IF combo.kind = "Sequence"
    THEN /\ has_match(combo, key, int_coord)
         /\ combo.pressed # NoAttribute
         /\ key \in Range(combo.pressed)
    ELSE has_match(combo, key, int_coord)

\* Chord.matches / Sequence.matches with _match_coord = False: whether the
\* event is consumed, the combo after the attempt, and whether the attempt
\* raised (self.pressed.append looks pressed up before remaining is popped)
matches(combo, key, int_coord) ==
    IF combo.kind = "Sequence"
    THEN IF combo.remaining # <<>> /\ Head(combo.remaining) = key
         THEN IF combo.pressed = NoAttribute
              THEN [ok |-> FALSE, combo |-> combo, err |-> TRUE]
              ELSE [ok |-> TRUE,
                    combo |-> [combo EXCEPT !.pressed = Append(@, Head(combo.remaining)),
                                            !.remaining = Tail(@)],
                    err |-> FALSE]
         ELSE [ok |-> FALSE, combo |-> combo, err |-> FALSE]
    ELSE IF key \in Range(combo.remaining)
         THEN [ok |-> TRUE,
               combo |-> [combo EXCEPT !.remaining = RemoveFirst(@, key)],
               err |-> FALSE]
         ELSE [ok |-> FALSE, combo |-> combo, err |-> FALSE]

\* the engine after combos[i].matches(...) gave m: a combo that was never
\* reset still has the class-level list as _remaining, so what matches took
\* off it is gone from every combo that was never reset
matched(s, i, m) ==
    [s EXCEPT !.combos = [j \in DOMAIN s.combos |->
        IF j = i THEN m.combo
        ELSE IF s.combos[i].pressed = NoAttribute /\ s.combos[j].pressed = NoAttribute
        THEN [s.combos[j] EXCEPT !.remaining = m.combo.remaining]
        ELSE s.combos[j]]]

\* Combo.unpress with _match_coord = False: list.remove raises ValueError
\* when the key is not in pressed, and the read of self.pressed raises
\* AttributeError when the combo was never reset
unpress(s, i, key, int_coord) ==
    IF s.combos[i].pressed # NoAttribute /\ key \in Range(s.combos[i].pressed)
    THEN [s EXCEPT !.combos[i].pressed = RemoveFirst(@, key)]
    ELSE [s EXCEPT !.err = TRUE]

\* Combo.insert with _match_coord = False: the key goes in front of
\* _remaining. A combo that was never reset still has the class-level list,
\* so the key shows in every combo that was never reset.
insert(s, i, key, int_coord) ==
    [s EXCEPT !.combos = [j \in DOMAIN s.combos |->
        IF \/ j = i
           \/ s.combos[i].pressed = NoAttribute /\ s.combos[j].pressed = NoAttribute
        THEN [s.combos[j] EXCEPT !.remaining = <<key>> \o s.combos[j].remaining]
        ELSE s.combos[j]]]

\* a plausible slip: pressed is not emptied
reset_KeepPressed(s, i) ==
    state_set([s EXCEPT !.combos[i].remaining = s.combos[i].match], i, MATCHING)

\* Combo.reset
reset(s, i) ==
    state_set([s EXCEPT !.combos[i].remaining = s.combos[i].match,
                        !.combos[i].pressed = <<>>],
              i, MATCHING)

\* Combos.reset_combos, combos i..end
RECURSIVE reset_combos_from(_, _)
reset_combos_from(s, i) ==
    IF i > Len(s.combos) THEN s
    ELSE reset_combos_from(IF s.combos[i].state # ACTIVE THEN reset(s, i) ELSE s, i + 1)

\* Combos.reset_combos
reset_combos(s) == reset_combos_from(s, 1)

\* a plausible slip: the result press is sent twice
activate_Twice(s, i) ==
    resume_process_key(resume_process_key(s, s.combos[i].result, TRUE, NoCoord, NoId),
                       s.combos[i].result, TRUE, NoCoord, NoId)

\* Combos.activate
activate(s, i) == resume_process_key(s, s.combos[i].result, TRUE, NoCoord, NoId)

\* a plausible slip: the result release is not sent
deactivate_Skip(s, i) == s

\* Combos.deactivate
deactivate(s, i) == resume_process_key(s, s.combos[i].result, FALSE, NoCoord, NoId)

\* d_last < combo.timeout and d_start < combo.timeout, where d is the
\* clock difference in ms divided by Divisor (a true division): the
\* quotient is below timeout exactly when delta_ms is below timeout * Divisor
d_below_timeout(delta_ms, timeout) == delta_ms < timeout * Divisor

\* sum of buffer_event[2]*2 - 1 over the buffered events of (int_coord, key)
RECURSIVE press_vs_released(_, _, _)
\* a plausible slip: every release counts as one whose press is buffered
press_vs_released_One(key_buffer, key, int_coord) == 1

press_vs_released(key_buffer, key, int_coord) ==
    IF key_buffer = <<>> THEN 0
    ELSE (IF Head(key_buffer).coord = int_coord /\ Head(key_buffer).key = key
          THEN (IF Head(key_buffer).is_pressed THEN 1 ELSE -1)
          ELSE 0)
         + press_vs_released(Tail(key_buffer), key, int_coord)


\* a plausible slip: count < 0 instead of count <= 0
released_in_buffer_Strict(s, i) ==
    \E b \in Range(s.key_buffer) :
        /\ press_vs_released(s.key_buffer, b.key, b.coord) < 0
        /\ has_match(s.combos[i], b.key, b.coord)

\* send_pending_combos: some buffered (coord, key) of the combo was released
\* in the buffer at least as many times as it was pressed
released_in_buffer(s, i) ==
    \E b \in Range(s.key_buffer) :
        /\ press_vs_released(s.key_buffer, b.key, b.coord) <= 0
        /\ has_match(s.combos[i], b.key, b.coord)

\* the log entry of one commit: the combo, the entry that ran it, where its
\* result press lands in the downstream log, the pending list it is
\* committed from, whether a member key has
\* presses minus releases <= 0 in key_buffer, and the state the combo has
\* when send_pending_combos returns (filled in there)
CommitEntry(s, i) ==
    [combo |-> i, at |-> s.at, pos |-> Len(s.out) + 1,
     pending |-> s.pending_combos,
     released |-> \E k \in Range(s.combos[i].match) :
                     press_vs_released(s.key_buffer, k, CoordOf(k)) <= 0,
     ended |-> RESET]

\* send_pending_combos: the loop over self._pending_combos, entries j..end
RECURSIVE commit_pending(_, _)
\* a plausible slip: only the first pending combo is committed
commit_pending_OnlyFirst(s, j) ==
    IF j > Len(s.pending_combos) THEN s
    ELSE LET i == s.pending_combos[j]
             s0 == [s EXCEPT !.commits = Append(@, CommitEntry(s, i))]
             s1 == state_set(resume_process_key(s0, s.combos[i].result, TRUE, NoCoord, NoId),
                             i, ACTIVE)
         IN IF released_in_buffer(s1, i)
            THEN state_set(resume_process_key(s1, s.combos[i].result, FALSE, NoCoord, NoId),
                           i, RESET)
            ELSE s1

commit_pending(s, j) ==
    IF j > Len(s.pending_combos) THEN s
    ELSE LET i == s.pending_combos[j]
             s0 == [s EXCEPT !.commits = Append(@, CommitEntry(s, i))]
             s1 == state_set(activate(s0, i), i, ACTIVE)
         IN commit_pending(IF released_in_buffer(s1, i)
                           THEN state_set(deactivate(s1, i), i, RESET)
                           ELSE s1,
                           j + 1)

\* a plausible slip: key_buffer is not cleared after the commit
send_pending_combos_KeepBuffer(s) ==
    LET s1 == commit_pending(s, 1)
        s3 == reset_combos([s1 EXCEPT !.pending_combos = <<>>])
    IN [s3 EXCEPT !.start_timepoint = None,
                  !.commits = [n \in DOMAIN s3.commits |->
                      IF n > Len(s.commits)
                      THEN [s3.commits[n] EXCEPT
                               !.ended = s3.combos[s3.commits[n].combo].state]
                      ELSE s3.commits[n]]]

\* Combos.send_pending_combos
send_pending_combos(s) ==
    LET s1 == commit_pending(s, 1)
        dropped == {b.id : b \in {e \in Range(s.key_buffer) :
                        \E j \in 1..Len(s.pending_combos) :
                            has_match(s.combos[s.pending_combos[j]], e.key, e.coord)}}
        s2 == [s1 EXCEPT !.pending_combos = <<>>,
                         !.key_buffer = <<>>,
                         !.consumed = @ \cup dropped]
        s3 == reset_combos(s2)
    IN [s3 EXCEPT !.start_timepoint = None,
                  !.commits = [n \in DOMAIN s3.commits |->
                      IF n > Len(s.commits)
                      THEN [s3.commits[n] EXCEPT
                               !.ended = s3.combos[s3.commits[n].combo].state]
                      ELSE s3.commits[n]]]

\* on_press: the loop over self.combos, combos i..end; r carries the engine
\* and the locals longest_timeout and matching_unfinished
RECURSIVE press_scan(_, _, _, _, _, _)
press_scan(r, i, key, int_coord, d_last_ms, d_start_ms) ==
    IF r.s.err \/ i > Len(r.s.combos) THEN r
    ELSE LET combo == r.s.combos[i] IN
         IF combo.state # MATCHING
         THEN press_scan(r, i + 1, key, int_coord, d_last_ms, d_start_ms)
         ELSE LET m == matches(combo, key, int_coord)
                  s1 == matched(r.s, i, m)
                  within == \/ combo.per_key_timeout /\ d_below_timeout(d_last_ms, combo.timeout)
                            \/ ~combo.per_key_timeout /\ d_below_timeout(d_start_ms, combo.timeout)
              IN IF m.err THEN [r EXCEPT !.s.err = TRUE]
                 ELSE IF m.ok /\ within
                 THEN press_scan(
                        [s |-> IF Len(m.combo.remaining) = 0
                               THEN [s1 EXCEPT !.pending_combos = Append(@, i)]
                               ELSE s1,
                         longest_timeout |-> Max(r.longest_timeout, combo.timeout),
                         matching_unfinished |-> r.matching_unfinished
                              + (IF Len(m.combo.remaining) = 0 THEN 0 ELSE 1)],
                        i + 1, key, int_coord, d_last_ms, d_start_ms)
                 ELSE press_scan(
                        [r EXCEPT !.s = state_set(reset(s1, i), i, RESET)],
                        i + 1, key, int_coord, d_last_ms, d_start_ms)

\* on_release: the loop over self.combos, combos i..end; r carries the
\* engine and the locals longest_timeout and propagate_release
RECURSIVE release_scan(_, _, _, _)
release_scan(r, i, key, int_coord) ==
    IF r.s.err \/ i > Len(r.s.combos) THEN r
    ELSE IF uses_match_raises(r.s.combos[i], key, int_coord)
    THEN [r EXCEPT !.s.err = TRUE]
    ELSE IF ~uses_match(r.s.combos[i], key, int_coord)
    THEN release_scan(r, i + 1, key, int_coord)
    ELSE LET was_active == r.s.combos[i].state = ACTIVE
             fast_reset == r.s.combos[i].fast_reset
             s1 == IF was_active
                   THEN IF fast_reset
                        THEN reset(deactivate(r.s, i), i)
                        ELSE state_set(deactivate(r.s, i), i, MATCHING)
                   ELSE r.s
             still_matching == s1.combos[i].state = MATCHING
             s2 == IF still_matching
                   THEN IF fast_reset THEN unpress(s1, i, key, int_coord)
                        ELSE reset(s1, i)
                   ELSE s1
         IN release_scan(
              [s |-> s2,
               longest_timeout |-> IF still_matching /\ fast_reset
                                   THEN Max(r.longest_timeout, s1.combos[i].timeout)
                                   ELSE r.longest_timeout,
               propagate_release |-> r.propagate_release /\ ~was_active
                                     /\ ~(still_matching /\ fast_reset)],
              i + 1, key, int_coord)

\* a plausible slip: the head is forwarded twice
flush_head_Twice(s) ==
    LET b == Head(s.key_buffer)
        s1 == resume_process_key([s EXCEPT !.key_buffer = Tail(@)],
                                 b.key, b.is_pressed, b.coord, b.id)
    IN resume_process_key(s1, b.key, b.is_pressed, b.coord, b.id)

\* a plausible slip: the head is popped and not forwarded
flush_head_Drop(s) == [s EXCEPT !.key_buffer = Tail(@)]

\* flush_buffers: self._key_buffer.pop(0) and its resume_process_key
flush_head(s) ==
    LET b == Head(s.key_buffer)
    IN resume_process_key([s EXCEPT !.key_buffer = Tail(@)],
                          b.key, b.is_pressed, b.coord, b.id)

RECURSIVE process_key(_, _, _, _, _)
RECURSIVE on_press(_, _, _, _)
RECURSIVE on_release(_, _, _, _)
RECURSIVE flush_buffers(_)
RECURSIVE flush_drain(_)
RECURSIVE flush_replay(_, _, _, _)

\* Combos.send_key_buffer, entries j..end: every buffered event goes
\* downstream and _key_buffer is left as it is
RECURSIVE send_key_buffer_from(_, _)
send_key_buffer_from(s, j) ==
    IF j > Len(s.key_buffer) THEN s
    ELSE LET b == s.key_buffer[j]
         IN send_key_buffer_from(
              resume_process_key(s, b.key, b.is_pressed, b.coord, b.id), j + 1)

\* Combos.send_key_buffer
send_key_buffer(s) == send_key_buffer_from(s, 1)

\* Combos.process_key
process_key(s, key, is_pressed, int_coord, id) ==
    IF s.err THEN s
    ELSE IF is_pressed THEN on_press([s EXCEPT !.work = @ + 1], key, int_coord, id)
    ELSE on_release([s EXCEPT !.work = @ + 1], key, int_coord, id)

\* Combos.on_press
on_press(s, key, int_coord, id) ==
    LET s0 == cancel_pending_timeout(s)
        current_timepoint == s0.now
        s1 == IF s0.start_timepoint = None
              THEN [s0 EXCEPT !.start_timepoint = current_timepoint]
              ELSE s0
        last_timepoint == IF s1.key_buffer # <<>>
                          THEN s1.key_buffer[Len(s1.key_buffer)].t
                          ELSE s1.start_timepoint
        r == press_scan([s |-> [s1 EXCEPT !.pending_combos = <<>>],
                         longest_timeout |-> 0,
                         matching_unfinished |-> 0],
                        1, key, int_coord,
                        current_timepoint - last_timepoint,
                        current_timepoint - s1.start_timepoint)
    IN IF r.s.err THEN r.s
       ELSE IF r.s.match_count = 0
       THEN IF r.s.pending_combos # <<>> \/ r.s.key_buffer # <<>>
            THEN LET f == flush_buffers(r.s)
                 IN IF f.err THEN f
                    ELSE process_key([f EXCEPT !.start_timepoint = current_timepoint],
                                     key, TRUE, int_coord, id)
            ELSE reset_combos(resume_process_key(r.s, key, TRUE, int_coord, id))
       ELSE LET s2 == [r.s EXCEPT !.key_buffer =
                          Append(@, BufferEvent(int_coord, key, TRUE, current_timepoint, id))]
            IN IF r.matching_unfinished = 0
               THEN send_pending_combos(s2)
               ELSE set_timeout(s2, r.longest_timeout)

\* Combos.on_release
on_release(s, key, int_coord, id) ==
    LET s0 == cancel_pending_timeout(s)
        current_timepoint == s0.now
        r == release_scan([s |-> s0, longest_timeout |-> 0, propagate_release |-> TRUE],
                          1, key, int_coord)
        buffered == press_vs_released(r.s.key_buffer, key, int_coord) > 0
        s1 == IF buffered
              THEN [r.s EXCEPT !.key_buffer =
                       Append(@, BufferEvent(int_coord, key, FALSE, current_timepoint, id))]
              ELSE r.s
        propagate_release == r.propagate_release /\ ~buffered
        s2 == IF s1.match_count = 0
              THEN [reset_combos(s1) EXCEPT !.key_buffer = <<>>]
              ELSE IF r.longest_timeout # 0
              THEN set_timeout(s1, r.longest_timeout)
              ELSE flush_buffers(s1)
    IN IF r.s.err THEN r.s
       ELSE IF s2.err THEN s2
       ELSE IF propagate_release
       THEN resume_process_key(s2, key, FALSE, int_coord, id)
       ELSE s2

\* flush_buffers: the for loop over old_buffer, entries j..end, after the
\* press `pressed` was popped and forwarded
flush_replay(s, old_buffer, j, pressed) ==
    IF s.err \/ j > Len(old_buffer) THEN s
    ELSE LET b == old_buffer[j]
             s1 == IF ~b.is_pressed /\ pressed.key = b.key /\ pressed.coord = b.coord
                   THEN resume_process_key(s, b.key, b.is_pressed, b.coord, b.id)
                   ELSE s
         IN flush_replay(process_key(s1, b.key, b.is_pressed, b.coord, b.id),
                         old_buffer, j + 1, pressed)

\* flush_buffers: the while loop over self._key_buffer
flush_drain(s) ==
    IF s.err \/ s.key_buffer = <<>> THEN s
    ELSE LET b == Head(s.key_buffer)
             s1 == flush_head(s)
         IN IF b.is_pressed
            THEN LET s2 == reset_combos(s1)
                     s3 == flush_replay([s2 EXCEPT !.start_timepoint = b.t,
                                                   !.key_buffer = <<>>,
                                                   !.work = @ + 1],
                                        s2.key_buffer, 1, b)
                 IN flush_drain([s3 EXCEPT !.tail_grew =
                                    @ \/ Len(s3.key_buffer) > Len(s2.key_buffer)])
            ELSE flush_drain([s1 EXCEPT !.work = @ + 1])

\* Combos.flush_buffers
flush_buffers(s) ==
    flush_drain(IF s.pending_combos # <<>> THEN send_pending_combos(s) ELSE s)

\* a plausible slip: the callback forgets to flush
on_timeout_NoFlush(s) == [s EXCEPT !.start_timepoint = None]

\* Combos.on_timeout
on_timeout(s) == flush_buffers([s EXCEPT !.start_timepoint = None])

\* Combos.during_bootup
during_bootup(s) == reset_combos(s)


\* ------------------------------------------------------------------ state
VARIABLES
    combos,           \* self.combos: the registry, each combo with its state
    key_buffer,       \* self._key_buffer
    pending_combos,   \* self._pending_combos, as indexes into combos
    match_count,      \* Combos.match_count
    start_timepoint,  \* self.start_timepoint
    timeout,          \* self._timeout: the last handle set_timeout returned
    timers,           \* the host's armed timers
    next_handle,      \* the handle the host hands out next
    out,              \* what the host received through resume_process_key
    now,              \* ticks_ms() at the last entry
    err,              \* the last entry ended by an exception
    max_armed,        \* most timers armed at once so far
    consumed,         \* ids of buffered events dropped by a commit
    commits,          \* the commits of send_pending_combos so far, in order
    disabled,         \* the combos the host has set to IDLE, in order
    work,             \* process_key calls and flush loop passes of the last entry
    size,             \* events the last entry had to handle: the buffered ones and its own
    tail_grew,        \* a replay in flush_buffers left key_buffer longer than the tail it detached
    booted,           \* during_bootup has run
    held,             \* the physical keys that are down
    times,            \* the clock readings of the key events, <<>> when free
    calls             \* the top-level entries so far, in order

vars == <<combos, key_buffer, pending_combos, match_count, start_timepoint,
          timeout, timers, next_handle, out, now, err, max_armed, consumed,
          commits, disabled, work, size, tail_grew, booted, held, times, calls>>

\* the engine as an entry starting at clock reading t finds it
Engine(t) ==
    [combos |-> combos, key_buffer |-> key_buffer,
     pending_combos |-> pending_combos, match_count |-> match_count,
     start_timepoint |-> start_timepoint, timeout |-> timeout,
     timers |-> timers, next_handle |-> next_handle, out |-> out,
     now |-> t, at |-> Len(calls) + 1, err |-> FALSE,
     max_armed |-> max_armed, consumed |-> consumed, commits |-> commits,
     work |-> 0, size |-> Len(key_buffer) + 1, tail_grew |-> tail_grew]

\* the engine as an entry leaves it
Becomes(r) ==
    /\ combos' = r.combos
    /\ key_buffer' = r.key_buffer
    /\ pending_combos' = r.pending_combos
    /\ match_count' = r.match_count
    /\ start_timepoint' = r.start_timepoint
    /\ timeout' = r.timeout
    /\ timers' = r.timers
    /\ next_handle' = r.next_handle
    /\ out' = r.out
    /\ now' = r.now
    /\ err' = r.err
    /\ max_armed' = r.max_armed
    /\ consumed' = r.consumed
    /\ commits' = r.commits
    /\ work' = r.work
    /\ size' = r.size
    /\ tail_grew' = r.tail_grew

\* the raw key events delivered so far
KeyCalls == SelectSeq(calls, LAMBDA c : c.id # NoId)

\* the clock readings the next key event may carry
EventTimes ==
    IF times = <<>>
    THEN IF Len(KeyCalls) < MaxEvents THEN {now + g : g \in Gaps} ELSE {}
    ELSE IF Len(KeyCalls) < Len(times) /\ times[Len(KeyCalls) + 1] >= now
         THEN {times[Len(KeyCalls) + 1]}
         ELSE {}

\* Combos.__init__ over a registry of freshly constructed combos
Init ==
    /\ combos \in Registries
    /\ times \in {<<>>} \cup Scenarios
    /\ times # <<>> => combos = StdRegistry
    /\ key_buffer = <<>>
    /\ pending_combos = <<>>
    /\ match_count = 0
    /\ start_timepoint = None
    /\ timeout = NoTimeout
    /\ timers = {}
    /\ next_handle = 1
    /\ out = <<>>
    /\ now = 0
    /\ err = FALSE
    /\ max_armed = 0
    /\ consumed = {}
    /\ commits = <<>>
    /\ disabled = <<>>
    /\ work = 0
    /\ size = 0
    /\ tail_grew = FALSE
    /\ booted = FALSE
    /\ held = {}
    /\ calls = <<>>

\* the host calls during_bootup once, before any key event
Bootup ==
    /\ ~booted
    /\ Becomes(during_bootup(Engine(now)))
    /\ booted' = TRUE
    /\ UNCHANGED <<disabled, held, times, calls>>

\* the host delivers the press of a key that is up; a timer that is due
\* earlier fires first
Press(key) ==
    /\ booted
    /\ key \notin held
    /\ \E t \in EventTimes :
        /\ \A tm \in timers : tm.due >= t
        /\ Becomes(process_key(Engine(t), key, TRUE, CoordOf(key), Len(KeyCalls) + 1))
        /\ calls' = Append(calls, [key |-> key, is_pressed |-> TRUE, t |-> t,
                                   id |-> Len(KeyCalls) + 1])
    /\ held' = held \cup {key}
    /\ UNCHANGED <<disabled, booted, times>>

\* the host delivers the release of a key that is down
Release(key) ==
    /\ booted
    /\ key \in held
    /\ \E t \in EventTimes :
        /\ \A tm \in timers : tm.due >= t
        /\ Becomes(process_key(Engine(t), key, FALSE, CoordOf(key), Len(KeyCalls) + 1))
        /\ calls' = Append(calls, [key |-> key, is_pressed |-> FALSE, t |-> t,
                                   id |-> Len(KeyCalls) + 1])
    /\ held' = held \ {key}
    /\ UNCHANGED <<disabled, booted, times>>

\* an armed timer fires: the host drops it and runs the callback
\* lambda: self.on_timeout(keyboard)
Timeout ==
    /\ booted
    /\ \E tm \in timers :
        /\ \A other \in timers : other.due >= tm.due
        /\ Becomes(on_timeout([Engine(Max(now, tm.due)) EXCEPT !.timers = @ \ {tm}]))
        /\ calls' = Append(calls, [key |-> "timeout", is_pressed |-> FALSE,
                                   t |-> Max(now, tm.due), id |-> NoId])
    /\ UNCHANGED <<disabled, booted, held, times>>

\* the host disables one combo of a free run before the first key event:
\* combo.state = IDLE, through the state setter (Next lets it disable the
\* first combo of the registry, a chord or a sequence)
Disable(i) ==
    /\ booted
    /\ times = <<>>
    /\ calls = <<>>
    /\ disabled = <<>>
    /\ Becomes(state_set(Engine(now), i, IDLE))
    /\ disabled' = Append(disabled, i)
    /\ UNCHANGED <<booted, held, times, calls>>

\* Combos.send_key_buffer and Combo.insert have no caller in the source
\* (the specification omits send_key_buffer as dead code), so they are no
\* steps of Next. HostSpec is the engine under a host that calls them all
\* the same, at any point of a run: send_key_buffer at most once, insert at
\* most MaxInserts times, in runs of at most HostEvents key events.
Helped(name) == \E n \in DOMAIN calls : calls[n].key = name

SendKeyBuffer ==
    /\ booted
    /\ key_buffer # <<>>
    /\ ~Helped("send_key_buffer")
    /\ Becomes(send_key_buffer(Engine(now)))
    /\ calls' = Append(calls, [key |-> "send_key_buffer", is_pressed |-> FALSE,
                               t |-> now, id |-> NoId])
    /\ UNCHANGED <<disabled, booted, held, times>>

Insert(i, key) ==
    /\ Cardinality({n \in DOMAIN calls : calls[n].key = "insert"}) < MaxInserts
    /\ Becomes(insert(Engine(now), i, key, CoordOf(key)))
    /\ calls' = Append(calls, [key |-> "insert", is_pressed |-> FALSE,
                               t |-> now, id |-> NoId, combo |-> i, arg |-> key,
                               booted |-> booted])
    /\ UNCHANGED <<disabled, booted, held, times>>

Next ==
    \/ Bootup
    \/ \E key \in Keys : Press(key)
    \/ \E key \in Keys : Release(key)
    \/ Timeout
    \/ Disable(1)

Spec == Init /\ [][Next]_vars

HostNext ==
    \/ Len(KeyCalls) < HostEvents /\ Next
    \/ Len(KeyCalls) = HostEvents /\ Timeout
    \/ SendKeyBuffer
    \/ \E i \in DOMAIN combos : \E key \in Keys : Insert(i, key)

HostSpec == Init /\ [][HostNext]_vars

\* An armed timer that is not cancelled fires: weak fairness of Timeout,
\* []<>~ENABLED <<Timeout>>_vars \/ []<><<Timeout>>_vars, written with
\* the guard of Timeout (a Timeout step appends to calls, so it changes vars).
FairSpec == Spec /\ ([]<>(~(booted /\ timers # {})) \/ []<><<Timeout>>_vars)


\* ----------------------------------------------------------------- claims
\* the raw events of the downstream log, as (id) in arrival order
RawOut == SelectSeq(out, LAMBDA o : o.id # NoId)

\* how often downstream received (key, is_pressed) as a combo result
ResultCount(key, is_pressed) ==
    Cardinality({n \in DOMAIN out :
        out[n].id = NoId /\ out[n].key = key /\ out[n].is_pressed = is_pressed})

\* the key events delivered so far are exactly these (key, is_pressed, t)
Delivered(events) ==
    /\ Len(KeyCalls) = Len(events)
    /\ \A n \in DOMAIN events :
        /\ KeyCalls[n].key = events[n][1]
        /\ KeyCalls[n].is_pressed = events[n][2]
        /\ KeyCalls[n].t = events[n][3]

\* C1: match_count equals the number of registered combos whose state is
\* MATCHING, in every reachable state.
C1_MatchCountIsMatching ==
    match_count = Cardinality({i \in DOMAIN combos : combos[i].state = MATCHING})

\* a press left one combo MATCHING and reset the other
C1_Witness ==
    /\ booted
    /\ key_buffer # <<>>
    /\ \E i, j \in DOMAIN combos : combos[i].state = MATCHING /\ combos[j].state = RESET

\* C2: every raw event handed to process_key is forwarded downstream at
\* most once.
C2_ForwardedAtMostOnce ==
    \A m, n \in DOMAIN out :
        (out[m].id # NoId /\ out[m].id = out[n].id) => m = n

\* C4: raw events reach downstream in the order they were delivered.
C4_PhysicalOrderKept ==
    \A m, n \in DOMAIN out :
        (m < n /\ out[m].id # NoId /\ out[n].id # NoId) => out[m].id <= out[n].id

\* C9: for every ACTIVE combo downstream has received exactly one more
\* press than release of its result key.
C9_ActiveResultHeldOnce ==
    \A i \in DOMAIN combos :
        combos[i].state = ACTIVE =>
            ResultCount(combos[i].result, TRUE)
                = ResultCount(combos[i].result, FALSE) + 1

\* a combo is ACTIVE a second time: its result was released in between
C9_Witness ==
    \E i \in DOMAIN combos :
        /\ combos[i].state = ACTIVE
        /\ ResultCount(combos[i].result, FALSE) >= 1

\* C10: no set_timeout call of the engine finds an earlier timer of the
\* engine still armed: at most one timer is ever armed.
C10_AtMostOneTimer == max_armed <= 1 /\ Cardinality(timers) <= 1

\* a timer armed by a re-entrant process_key call inside flush_buffers,
\* after an earlier timer had fired
C10_Witness ==
    /\ calls # <<>>
    /\ calls[Len(calls)].key = "timeout"
    /\ timers # {}
    /\ max_armed = 1


\* the press with this id waits in key_buffer
Buffered(id) == \E n \in DOMAIN key_buffer : key_buffer[n].id = id /\ key_buffer[n].is_pressed

\* the press with this id went downstream, as a press of the key delivered
Forwarded(id) ==
    \E n \in DOMAIN out :
        /\ out[n].id = id
        /\ out[n].is_pressed
        /\ \E c \in DOMAIN KeyCalls :
            KeyCalls[c].id = id /\ KeyCalls[c].is_pressed /\ KeyCalls[c].key = out[n].key

\* every press delivered so far is buffered, forwarded or consumed by a
\* commit of a combo that contains its key
C3_Accounted ==
    \A c \in DOMAIN KeyCalls :
        KeyCalls[c].is_pressed =>
            Buffered(KeyCalls[c].id) \/ Forwarded(KeyCalls[c].id) \/ KeyCalls[c].id \in consumed

\* C3 as a temporal formula: a press appended to key_buffer never leaves it
\* except by being forwarded downstream as a press or consumed by a commit
\* of a combo that contains its key, and, armed timers firing, key_buffer
\* does drain (so every buffered press meets one of the two outcomes).
C3_NoBufferedPressLost ==
    /\ []C3_Accounted
    /\ key_buffer # <<>> ~> key_buffer = <<>>

\* C3, in the form a finite run refutes: every press delivered is buffered,
\* forwarded or consumed by a commit over its key, and a press that waits in
\* key_buffer has an armed timer ahead of it, so that it is eventually
\* forwarded or consumed even if no further key event arrives.
C3_PressNeverStranded ==
    /\ C3_Accounted
    /\ (\E n \in DOMAIN key_buffer : key_buffer[n].is_pressed) => timers # {}

\* a press that was buffered by one entry went downstream in a later one,
\* and another one was consumed by a commit
C3_Witness ==
    /\ \E n \in DOMAIN out : out[n].id # NoId /\ out[n].is_pressed /\ Forwarded(out[n].id)
                             /\ \E c \in DOMAIN calls : calls[c].id = out[n].id /\ c < out[n].at
    /\ consumed # {}

\* (key, is_pressed) of each entry of a log, in order
Flags(log) == [n \in DOMAIN log |-> <<log[n].key, log[n].is_pressed>>]

\* C5: once the buffer has drained in a run in which no combo completed,
\* downstream has received exactly the raw events delivered, in the same
\* order, with the same flags, each once.
C5_ReplayEquivalence ==
    (/\ key_buffer = <<>>
     /\ pending_combos = <<>>
     /\ consumed = {}
     /\ \A n \in DOMAIN out : out[n].id # NoId)
    => Flags(out) = Flags(KeyCalls)

\* a combo without per_key_timeout that the last buffered press advanced
\* (or completed) got that press less than timeout ms after the window began
C6_ChordAdvancedWithinMs ==
    \A i \in DOMAIN combos :
        (/\ combos[i].state = MATCHING
         /\ ~combos[i].per_key_timeout
         /\ Len(combos[i].remaining) < Len(combos[i].match)
         /\ key_buffer # <<>>
         /\ key_buffer[Len(key_buffer)].is_pressed)
        => key_buffer[Len(key_buffer)].t - start_timepoint < combos[i].timeout

\* the chord timeout scenario: press A at 0, press B at 80 never emits X
C6_ChordTimeoutScenario ==
    (/\ combos[1].result = "X"
     /\ times = ChordTimeoutTimes
     /\ Delivered(<<<<"A", TRUE, 0>>, <<"B", TRUE, 80>>>>))
    => /\ ResultCount("X", TRUE) = 0
       /\ key_buffer = <<>> => Flags(out) = <<<<"A", TRUE>>, <<"B", TRUE>>>>

\* C6: a press advances a combo only inside the combo's timeout in ms, and
\* press A at 0, press B at 80 gives A-press, B-press and no X.
C6_TimeoutInMilliseconds == C6_ChordAdvancedWithinMs /\ C6_ChordTimeoutScenario

\* a combo result as the host logs it
Emitted(key, is_pressed, at) ==
    [key |-> key, is_pressed |-> is_pressed, coord |-> NoCoord, id |-> NoId, at |-> at]

\* the clean chord input, as delivered
CleanChordInput ==
    <<<<"A", TRUE, 0>>, <<"B", TRUE, 10>>, <<"A", FALSE, 30>>, <<"B", FALSE, 40>>>>

\* C7 as claimed: X-press while the press of B is handled, X-release while
\* the release of A is handled, nothing else.
C7_CleanChordAsClaimed ==
    (times = CleanChordTimes /\ Delivered(CleanChordInput) /\ Len(calls) = 4)
    => out = <<Emitted("X", TRUE, 2), Emitted("X", FALSE, 3)>>

\* C7 amended: nothing goes downstream while the four key events are
\* handled; when the timer then fires, on_timeout emits X-press and then
\* X-release, and nothing else.
C7_CleanChordOnTimeout ==
    (times = CleanChordTimes /\ Delivered(CleanChordInput))
    => /\ Len(calls) = 4 => out = <<>> /\ Cardinality(timers) = 1
       /\ Len(calls) = 5 => out = <<Emitted("X", TRUE, 5), Emitted("X", FALSE, 5)>>
       /\ Len(calls) <= 5

\* the timer fired after the clean chord input
C7_Witness ==
    times = CleanChordTimes /\ Delivered(CleanChordInput) /\ Len(calls) = 5

\* the sequence completion input, as delivered
SequenceInput ==
    <<<<"A", TRUE, 0>>, <<"A", FALSE, 20>>, <<"B", TRUE, 100>>, <<"B", FALSE, 120>>,
      <<"C", TRUE, 200>>, <<"C", FALSE, 220>>>>

\* C8: tapping A, B, C gives Y-press when C is pressed, Y held until C is
\* released, Y-release then, and nothing else.
C8_SequenceCompletion ==
    /\ (times = SequenceTimes /\ Delivered(SubSeq(SequenceInput, 1, 5)) /\ Len(calls) = 5)
       => out = <<Emitted("Y", TRUE, 5)>>
    /\ (times = SequenceTimes /\ Delivered(SequenceInput) /\ Len(calls) = 6)
       => out = <<Emitted("Y", TRUE, 5), Emitted("Y", FALSE, 6)>>


\* the registry is the one of the end-to-end scenarios, no combo disabled
StdRegistered ==
    /\ Len(combos) = 2 /\ combos[1].match = <<"A", "B">> /\ combos[2].kind = "Sequence"
    /\ disabled = <<>>

\* the commit left its result press at out[pos], at once followed by the
\* result release, both emitted by the entry that ran the commit
ReleasedAtOnce(c) ==
    /\ c.pos + 1 <= Len(out)
    /\ out[c.pos] = Emitted(combos[c.combo].result, TRUE, c.at)
    /\ out[c.pos + 1] = Emitted(combos[c.combo].result, FALSE, c.at)

\* C11: a combo committed by send_pending_combos while a member key has at
\* most as many presses as releases in key_buffer gets its result release
\* right after its result press and does not end ACTIVE; press A, press B,
\* release A, timer fires (standard registry) leaves X not held.
C11_ReleasedMemberNotHeld ==
    /\ \A n \in DOMAIN commits :
          commits[n].released => ReleasedAtOnce(commits[n]) /\ commits[n].ended # ACTIVE
    /\ (/\ StdRegistered
        /\ Len(calls) = 4
        /\ Flags(calls) = <<<<"A", TRUE>>, <<"B", TRUE>>, <<"A", FALSE>>,
                            <<"timeout", FALSE>>>>)
       => /\ Flags(out) = <<<<"X", TRUE>>, <<"X", FALSE>>>>
          /\ combos[1].state # ACTIVE

\* the timer fired after press A, press B, release A and the commit found
\* A released in the buffer
C11_Witness ==
    /\ StdRegistered
    /\ Len(calls) = 4
    /\ Flags(calls) = <<<<"A", TRUE>>, <<"B", TRUE>>, <<"A", FALSE>>,
                        <<"timeout", FALSE>>>>
    /\ \E n \in DOMAIN commits : commits[n].released /\ commits[n].at = 4


\* where combo c.combo stands in the pending list it was committed from
PendingIndex(c) == CHOOSE j \in DOMAIN c.pending : c.pending[j] = c.combo

\* the commit log entries n - j + 1 .. n - j + Len(pending) are the batch of
\* entry n: one per pending combo, in the order of the list, which is the
\* order of the registry, each with its result press downstream, in that
\* order, and ACTIVE afterwards unless a member key was released
BatchInRegistryOrder(n) ==
    LET c == commits[n]
        first == n - PendingIndex(c) + 1
    IN /\ first >= 1 /\ first + Len(c.pending) - 1 <= Len(commits)
       /\ \A k \in DOMAIN c.pending :
            LET d == commits[first + k - 1]
            IN /\ d.combo = c.pending[k] /\ d.pending = c.pending /\ d.at = c.at
               /\ d.pos <= Len(out)
               /\ out[d.pos] = Emitted(combos[d.combo].result, TRUE, d.at)
               /\ ~d.released => d.ended = ACTIVE
               /\ k > 1 => /\ c.pending[k - 1] < c.pending[k]
                           /\ commits[first + k - 2].pos < d.pos

\* every committed batch: the combos that completed on one press and are
\* committed are all activated, and downstream receives their result presses
\* in registry order
C12_CommittedInRegistryOrder == \A n \in DOMAIN commits : BatchInRegistryOrder(n)

\* this step is a timer firing
TimerStep ==
    /\ Len(calls') = Len(calls) + 1
    /\ calls'[Len(calls')].key = "timeout"

\* this step is a press, of any key
AnyPressStep ==
    /\ Len(calls') = Len(calls) + 1
    /\ calls'[Len(calls')].id # NoId
    /\ calls'[Len(calls')].is_pressed

\* the combos that waited in pending_combos were all committed by this
\* step, in the order of the list
PendingCommitted ==
    /\ pending_combos' = <<>>
    /\ Len(commits') >= Len(commits) + Len(pending_combos)
    /\ \A k \in DOMAIN pending_combos :
         commits'[Len(commits) + k].combo = pending_combos[k]

\* C12 amended, whole: every committed batch is activated whole with its
\* result presses downstream in registry order; the combos that wait in
\* pending_combos are all committed when the timer fires, and a step that
\* is no press keeps them waiting or commits them all.
C12_CommittedWholeInOrder ==
    /\ []C12_CommittedInRegistryOrder
    /\ [][(TimerStep /\ pending_combos # <<>>) => PendingCommitted]_vars
    /\ [][(~AnyPressStep /\ pending_combos # <<>>)
            => (pending_combos' = pending_combos \/ PendingCommitted)]_vars

\* a commit of two combos at once
C12_Witness ==
    \E n \in DOMAIN commits : Len(commits[n].pending) >= 2 /\ ~commits[n].released

\* the combos waiting in pending_combos stay there or are all committed
PendingKeptOrCommitted ==
    Len(pending_combos) >= 2 =>
        \/ pending_combos' = pending_combos
        \/ /\ Len(commits') >= Len(commits) + Len(pending_combos)
           /\ \A k \in DOMAIN pending_combos :
                commits'[Len(commits) + k].combo = pending_combos[k]

\* C12: several combos that complete on the same press are all activated,
\* with their result presses downstream in registry order.
C12_AllCompletedActivated ==
    []C12_CommittedInRegistryOrder /\ [][PendingKeptOrCommitted]_vars


\* C13: a combo the host has set to IDLE stays IDLE under every engine
\* operation, and is not counted in match_count.
C13_IdleStaysIdle ==
    /\ [](\A i \in DOMAIN combos : combos[i].state = IDLE =>
            match_count = Cardinality({j \in DOMAIN combos \ {i} :
                                         combos[j].state = MATCHING}))
    /\ [][\A i \in DOMAIN combos :
            combos[i].state = IDLE => combos'[i].state = IDLE]_vars


\* this step is the release of key, delivered as the next entry
ReleaseStep(key) ==
    /\ Len(calls') = Len(calls) + 1
    /\ calls'[Len(calls')].key = key
    /\ calls'[Len(calls')].id # NoId
    /\ ~calls'[Len(calls')].is_pressed

\* what the entry that made this step sent downstream
SentByStep == SubSeq(out', Len(out) + 1, Len(out'))

\* the release of key, a member of combo i that is ACTIVE, completed
\* normally
ActiveReleaseCompletes(i, key) ==
    (/\ combos[i].state = ACTIVE
     /\ has_match(combos[i], key, CoordOf(key))
     /\ ReleaseStep(key))
    => /\ ~err'
       /\ \E n \in DOMAIN SentByStep :
            SentByStep[n] = Emitted(combos[i].result, FALSE, Len(calls'))
       /\ \A n \in DOMAIN SentByStep : SentByStep[n].id # calls'[Len(calls')].id
       /\ combos'[i].state = MATCHING
       /\ combos'[i].remaining = combos[i].match

\* C14: releasing a member key of an ACTIVE combo emits the result
\* release, forwards no raw release, leaves the combo MATCHING with its
\* full match remaining, and raises no error, with and without fast_reset.
C14_ActiveReleaseCompletes ==
    [][\A i \in DOMAIN combos : \A key \in Keys : ActiveReleaseCompletes(i, key)]_vars


\* this step is a timer firing: on_timeout ran as the next entry
TimeoutStep ==
    /\ Len(calls') = Len(calls) + 1
    /\ calls'[Len(calls')].key = "timeout"

\* the buffered event was dropped by a commit or sent downstream by the
\* entry that made this step
DroppedOrForwarded(b) ==
    \/ b.id \in consumed'
    \/ \E n \in DOMAIN SentByStep :
          /\ SentByStep[n].id = b.id
          /\ SentByStep[n].key = b.key
          /\ SentByStep[n].is_pressed = b.is_pressed

\* on_timeout returned with both buffers empty and every buffered event
\* dropped by a commit or forwarded
TimeoutDrains ==
    TimeoutStep =>
        /\ ~err'
        /\ key_buffer' = <<>>
        /\ pending_combos' = <<>>
        /\ \A n \in DOMAIN key_buffer : DroppedOrForwarded(key_buffer[n])

ReleasedTheResult(b) ==
    /\ ~b.is_pressed
    /\ \E n \in (Len(commits) + 1)..Len(commits') :
         LET i == commits'[n].combo
         IN /\ b.key \in Range(combos[i].match)
            /\ \E m \in DOMAIN SentByStep :
                 /\ SentByStep[m].id = NoId
                 /\ SentByStep[m].key = combos[i].result
                 /\ ~SentByStep[m].is_pressed

PressStep(key) ==
    /\ Len(calls') = Len(calls) + 1
    /\ calls'[Len(calls')].key = key
    /\ calls'[Len(calls')].id # NoId
    /\ calls'[Len(calls')].is_pressed

\* the loop of on_press, run on the press of key at clock reading t, leaves
\* no combo MATCHING: no MATCHING combo accepts the press
NoComboAccepts(key, t) ==
    LET s0 == cancel_pending_timeout(Engine(t))
        start == IF start_timepoint = None THEN t ELSE start_timepoint
        last == IF key_buffer # <<>> THEN key_buffer[Len(key_buffer)].t ELSE start
        r == press_scan([s |-> [s0 EXCEPT !.pending_combos = <<>>,
                                          !.start_timepoint = start],
                         longest_timeout |-> 0, matching_unfinished |-> 0],
                        1, key, CoordOf(key), t - last, t - start)
    IN r.s.match_count = 0

\* key_buffer holds presses only, at least one, and the press of key that
\* makes this step is one no MATCHING combo accepts
AbandonedBy(key) ==
    /\ PressStep(key)
    /\ key_buffer # <<>>
    /\ \A n \in DOMAIN key_buffer : key_buffer[n].is_pressed
    /\ NoComboAccepts(key, calls'[Len(calls')].t)

\* (key, is_pressed, id) of each entry of a log, in order
Raw(log) == [n \in DOMAIN log |-> <<log[n].key, log[n].is_pressed, log[n].id>>]

\* the raw events of a log
RawOf(log) == SelectSeq(log, LAMBDA o : o.id # NoId)

\* a combo of the re-armed registry accepts the press of key as its first
\* key: a chord that has the key, a sequence that starts with it (a combo
\* that is ACTIVE is not re-armed)
FreshAccepts(key) ==
    \E i \in DOMAIN combos :
        /\ combos[i].state # ACTIVE
        /\ IF combos[i].kind = "Sequence"
           THEN combos[i].match[1] = key
           ELSE key \in Range(combos[i].match)

\* the keys of the buffered presses after the first, the ones that
\* flush_buffers replays against the re-armed registry
ReplayedKeys == {key_buffer[n].key : n \in 2..Len(key_buffer)}

\* the replayed presses could complete a combo: every key of its match is
\* among them
ReplayCanComplete ==
    \E i \in DOMAIN combos :
        combos[i].state # ACTIVE /\ Range(combos[i].match) \subseteq ReplayedKeys

\* the outcome of an abandoned attempt. The first buffered press went
\* downstream first. A commit inside the replay dropped buffered presses
\* after the first only, and none unless the replayed presses could
\* complete a combo: otherwise no combo was activated. Every buffered
\* press that was not dropped went downstream in buffer order, once. The
\* new press went downstream after them, leaving key_buffer empty, unless a
\* combo of the re-armed registry accepts it: then it waits alone in
\* key_buffer with a timer armed.
AbandonedOutcome(key) ==
    LET new == [key |-> key, is_pressed |-> TRUE, id |-> calls'[Len(calls')].id]
        dropped == consumed' \ consumed
        rebuffered == FreshAccepts(key)
        left == SelectSeq(key_buffer \o <<new>>,
                          LAMBDA b : b.id \notin dropped /\ ~(rebuffered /\ b.id = new.id))
    IN /\ ~err'
       /\ SentByStep # <<>>
       /\ Raw(<<Head(SentByStep)>>) = Raw(<<Head(key_buffer)>>)
       /\ Raw(RawOf(SentByStep)) = Raw(left)
       /\ dropped \subseteq {key_buffer[n].id : n \in 2..Len(key_buffer)}
       /\ IF rebuffered
          THEN Raw(key_buffer') = Raw(<<new>>) /\ timers' # {}
          ELSE key_buffer' = <<>>
       /\ ~ReplayCanComplete =>
            /\ commits' = commits
            /\ dropped = {}
            /\ \A n \in DOMAIN combos : combos'[n].state = ACTIVE <=> combos[n].state = ACTIVE
       /\ commits' # commits => dropped # {}

\* press A, press C with the registry of the scenarios: A-press, C-press
\* downstream, no X, nothing buffered
AbandonedChordScenario ==
    (StdRegistered /\ Flags(calls) = <<<<"A", TRUE>>, <<"C", TRUE>>>>)
    => Flags(out) = <<<<"A", TRUE>>, <<"C", TRUE>>>> /\ key_buffer = <<>>

\* press A, press B, press D with the three-key chord: two presses are
\* buffered when D abandons the attempt, and they go downstream in buffer
\* order before D
AbandonedPairScenario ==
    (Len(combos) = 1 /\ disabled = <<>>
        /\ Flags(calls) = <<<<"A", TRUE>>, <<"B", TRUE>>, <<"D", TRUE>>>>)
    => Flags(out) = <<<<"A", TRUE>>, <<"B", TRUE>>, <<"D", TRUE>>>> /\ key_buffer = <<>>

\* the presses A, B, C, D were delivered to the chord over B and C beside
\* the sequence A, B, C, A
ReturnSequencePressed ==
    /\ Len(combos) = 2 /\ combos[2].match = <<"A", "B", "C", "A">>
    /\ disabled = <<>>
    /\ Flags(calls) = <<<<"A", TRUE>>, <<"B", TRUE>>, <<"C", TRUE>>, <<"D", TRUE>>>>

\* there D abandons the sequence with A, B, C buffered: A goes downstream,
\* the replay of B and C commits the chord (X-press, X held), D follows
CommitInReplayScenario ==
    ReturnSequencePressed
    => /\ Flags(out) = <<<<"A", TRUE>>, <<"X", TRUE>>, <<"D", TRUE>>>>
       /\ combos[1].state = ACTIVE
       /\ key_buffer = <<>>

\* press A, B, C, D with the four-step sequence beside the reversed pair
\* and the chord with D: the replay commits nothing although B and C are
\* the keys of the reversed pair, A, B, C go downstream in buffer order,
\* and D, which the re-armed chord accepts, is buffered again
RebufferedScenario ==
    (Len(combos) = 3 /\ combos[1].match = <<"A", "B", "C", "A">> /\ disabled = <<>>
        /\ Flags(calls) = <<<<"A", TRUE>>, <<"B", TRUE>>, <<"C", TRUE>>, <<"D", TRUE>>>>)
    => /\ Flags(out) = <<<<"A", TRUE>>, <<"B", TRUE>>, <<"C", TRUE>>>>
       /\ Flags(key_buffer) = <<<<"D", TRUE>>>>
       /\ timers # {}

\* C16 amended: the first buffered press is forwarded first; the buffered
\* presses after it are replayed against the re-armed registry and go
\* downstream in buffer order, each once, but for those a combo committed
\* inside the replay consumes, and no combo is activated unless the
\* replayed presses hold every key of some combo; the new press is
\* forwarded after them, leaving key_buffer empty, unless a combo of the
\* re-armed registry accepts it, and then it is buffered again alone with a
\* timer armed (press A, press C: A-press, C-press, no X).
C16_AbandonedFlushed ==
    /\ []AbandonedChordScenario
    /\ []AbandonedPairScenario
    /\ []CommitInReplayScenario
    /\ []RebufferedScenario
    /\ [][\A key \in Keys : AbandonedBy(key) => AbandonedOutcome(key)]_vars

\* D abandoned the attempt with three presses buffered and the replay
\* committed the chord over two of them
C16_Witness ==
    /\ ReturnSequencePressed
    /\ Len(out) = 3
    /\ commits # <<>>

\* C16: a press that no MATCHING combo accepts, arriving while key_buffer
\* holds only presses, makes on_press forward the buffered presses in
\* buffer order and then the new press, each once, activate no combo and
\* leave key_buffer empty; press A, press C gives A-press, C-press, no X.
C16_AbandonedAttempt ==
    [][\A key \in Keys :
        AbandonedBy(key) =>
            /\ Raw(SentByStep) = Raw(key_buffer) \o <<<<key, TRUE, calls'[Len(calls')].id>>>>
            /\ commits' = commits
            /\ key_buffer' = <<>>]_vars


\* reset_combos applied to the engine as it is now
AfterReset == reset_combos(Engine(now))

\* C17: reset_combos sets every combo that is not ACTIVE to MATCHING with
\* its full match remaining and pressed empty, leaves every ACTIVE combo
\* as it is, and on an idle engine a second call changes nothing (neither
\* the combos nor match_count).
C17_ResetCombos ==
    /\ \A i \in DOMAIN combos :
          IF combos[i].state = ACTIVE
          THEN AfterReset.combos[i] = combos[i]
          ELSE AfterReset.combos[i] = [combos[i] EXCEPT !.state = MATCHING,
                                                       !.remaining = combos[i].match,
                                                       !.pressed = <<>>]
    /\ AfterReset.match_count =
          Cardinality({i \in DOMAIN combos : combos[i].state # ACTIVE})
    /\ (key_buffer = <<>> /\ pending_combos = <<>>)
       => reset_combos(AfterReset) = AfterReset

\* one combo is ACTIVE and another one, part of its match pressed, is one
\* that reset_combos has to reset
C17_Witness ==
    /\ booted
    /\ \E i, j \in DOMAIN combos :
          /\ combos[i].state = ACTIVE
          /\ combos[j].state # ACTIVE
          /\ combos[j].pressed # <<>>
          /\ AfterReset.combos[j] # combos[j]


\* the calls and loop passes n events can take when each pass of the flush
\* loop removes one event and replays the others: n + (n - 1) + ... + 1
WorkBound(n) == (n * (n + 1)) \div 2

\* C18: every process_key and on_timeout call terminates: the number of
\* process_key calls and flush loop passes of one entry is bounded by the
\* number of events it has to handle, and no replay of flush_buffers leaves
\* key_buffer longer than the tail it detached.
C18_Terminates == ~tail_grew /\ work <= WorkBound(size)

\* an entry whose flush popped a press and replayed a tail through
\* process_key, which buffered again and was drained by a further pass
C18_Witness ==
    /\ size >= 3
    /\ work >= 5
    /\ key_buffer = <<>>


\* C19: whenever a top-level entry has returned (it did not end in an
\* exception) and key_buffer or pending_combos is not empty, a timer is
\* armed that will call on_timeout.
C19_BufferedImpliesTimer ==
    ~err => ((key_buffer # <<>> \/ pending_combos # <<>>) => timers # {})

\* a release was buffered behind its press and on_release armed the timer
C19_Witness ==
    /\ ~err
    /\ calls # <<>> /\ ~calls[Len(calls)].is_pressed /\ calls[Len(calls)].id # NoId
    /\ Len(key_buffer) >= 2 /\ ~key_buffer[Len(key_buffer)].is_pressed
    /\ timers # {}


\* how many raw events (key, is_pressed) are among the first n downstream,
\* an event that was forwarded twice counted once
RawCount(key, is_pressed, n) ==
    Cardinality({out[m].id : m \in {m \in 1..n :
        out[m].id # NoId /\ out[m].key = key /\ out[m].is_pressed = is_pressed}})

\* C20: at every point of the downstream output, for every key, no more
\* raw releases than raw presses of that key have been forwarded; releasing
\* B after Chord(A,B)->X was activated and A released forwards no raw
\* B-release.
C20_NoUnmatchedRawRelease ==
    \A key \in Keys : \A n \in DOMAIN out :
        RawCount(key, FALSE, n) <= RawCount(key, TRUE, n)

====
